---- MODULE Spec2Model ----
(***************************************************************************)
(* claude-code-adapter: the CLI-process streaming bridge.                  *)
(*                                                                         *)
(* Spec     the request orchestrator (messagesHandler), the buffered and   *)
(*          the streaming handler (handleNonStreaming, handleStreaming)    *)
(*          with the SSE translator, and the session store, one request    *)
(*          at a time.                                                     *)
(* SpecT    one streaming request over every kind of record: the SSE       *)
(*          translator of handleStreaming.                                 *)
(* SpecCLI  the inside of one invokeClaudeCLI call: the raw line buffer,   *)
(*          the readline loop, the settle wait and the drain phase.        *)
(* SpecTO   the timers of one invokeClaudeCLI call: the idle timer, the    *)
(*          hard timer, the child-process probe, killProc and waitForExit. *)
(* SpecEnv  the environment handed to the subprocess.                      *)
(* SpecR    one invocation seen record by record, in the loops of          *)
(*          handleStreaming and of handleNonStreaming.                     *)
(* SpecD    one streaming request whose client may go away, joined to the  *)
(*          timers of the invocation it reads from.                        *)
(* SpecS    the SessionStore class: its Map, the sessions file, the clock. *)
(* SpecReplay  two calls of handleStreaming handed the same records.       *)
(* SpecAuth the route table of createServer and the API-key middleware.    *)
(* SpecTOLive  SpecTO with the fairness of the event loop.                 *)
(* SpecO    messagesHandler with two requests that overlap.                *)
(* SpecL    the learning record and sample files of agent-learning.ts.     *)
(*                                                                         *)
(* Frame payloads are modelled by their kind and their text; message ids,  *)
(* models, block indexes and usage numbers are left out.                   *)
(***************************************************************************)
EXTENDS Integers, Sequences, FiniteSets, TLC

\* ---------------------------------------------------------------- bounds
MaxTurns == 2        \* requests served one after the other (Spec)
MaxRecords == 3      \* records one invocation yields at most
MaxLines == 3        \* stdout lines of one subprocess before end-of-input
MaxLate == 2         \* stdout lines written after readline reported the end

\* ------------------------------------------------------ program constants
MAX_RETRIES == 2

None == "none"
\* No session id (undefined, or an empty string).
NoId == 0
NoText == ""

ExtIds == {"e1", "e2"}
InitIdOf == [e \in ExtIds |-> IF e = "e1" THEN 1 ELSE 2]
\* A session id the CLI creates for invocation k of turn t (a fresh uuid).
FreshId(t, k) == 10 * t + k

\* ------------------------------------------------- records the CLI yields
\* CLIOutputLine: type, session_id (sid: whether the record carries the
\* invocation's session id), parent_tool_use_id (parent: non-null), the
\* nested event (etype "absent" when the record has none), the block type of
\* a content_block_start (btype), the delta type of a content_block_delta
\* (dtype) and the text (of a delta, or of a result record).
Rec(type, sid, parent, etype, btype, dtype, text) ==
  [type |-> type, sid |-> sid, parent |-> parent, etype |-> etype,
   btype |-> btype, dtype |-> dtype, text |-> text]

Events ==
  {<<"absent", "-", "-", NoText>>,
   <<"message_start", "-", "-", NoText>>,
   <<"content_block_start", "absent", "-", NoText>>,
   <<"content_block_start", "text", "-", NoText>>,
   <<"content_block_start", "tool_use", "-", NoText>>,
   <<"content_block_start", "thinking", "-", NoText>>,
   <<"content_block_delta", "-", "absent", NoText>>,
   <<"content_block_delta", "-", "text_delta", NoText>>,
   <<"content_block_delta", "-", "text_delta", "x">>,
   <<"content_block_delta", "-", "input_json_delta", NoText>>,
   <<"content_block_stop", "-", "-", NoText>>,
   <<"message_delta", "-", "-", NoText>>,
   <<"message_stop", "-", "-", NoText>>,
   <<"ping", "-", "-", NoText>>,
   <<"other", "-", "-", NoText>>}

StreamEvents ==
  {Rec("stream_event", s, p, e[1], e[2], e[3], e[4]) :
     s \in BOOLEAN, p \in BOOLEAN, e \in Events}

ResultRecords ==
  {Rec("result", s, FALSE, "-", "-", "-", t) : s \in BOOLEAN, t \in {NoText, "a"}}

OtherRecords == {Rec("system", TRUE, FALSE, "-", "-", "-", NoText)}

Records == StreamEvents \cup ResultRecords \cup OtherRecords

\* ------------------------------------------------------------- SSE frames
Frame(kind, text) == [kind |-> kind, text |-> text]

VARIABLES
  \* SessionStore
  sessions,           \* externalId -> cliSessionId of the record, or NoId
  \* messagesHandler
  turn,               \* requests started so far
  pc,                 \* where the request is
  mode,               \* "stream" | "buffered" (body.stream)
  ext,                \* externalSessionId
  cliSessionId,       \* existingSession?.cliSessionId
  response,           \* what res.json sent: None | "ok" | "500"
  \* handleStreaming / handleNonStreaming
  optSessionId,       \* cliOptions.sessionId
  attempt,            \* handleNonStreaming's loop counter
  sentMessageStart, hasOpenBlock, resultText, capturedSessionId,
  frames,             \* what sendSSE wrote, in order
  closed,             \* res.closed: the client went away
  ended,              \* res.end() was called
  \* the invocation in progress
  invSid,             \* the session id the running CLI reports
  nYield,             \* records it has yielded
  procs,              \* per invocation of this request: "alive" | "exited"
  \* history
  invLog,             \* per invocation: resume id, outcome, flag at failure
  hLive,              \* the live stored id the lookup found (NoId: no record)
  obsSid,             \* session id observed in the current invocation
  bareResult,         \* text of a result record handled with no frame sent
  dead,               \* <<E, I, turn>>: resume of I failed, the retry returned an id
  \* invokeClaudeCLI (SpecCLI)
  cli

vars == <<sessions, turn, pc, mode, ext, cliSessionId, response, optSessionId,
          attempt, sentMessageStart, hasOpenBlock, resultText,
          capturedSessionId, frames, closed, ended, invSid, nYield, procs,
          invLog, hLive, obsSid, bareResult, dead, cli>>

\* Everything but the generator's own state.
serverVars == <<sessions, turn, pc, mode, ext, cliSessionId, response,
                optSessionId, attempt, sentMessageStart, hasOpenBlock,
                resultText, capturedSessionId, frames, closed, ended, invSid,
                nYield, procs, invLog, hLive, obsSid, bareResult, dead>>

cur == Len(invLog)
RecSid(r) == IF r.sid THEN invSid ELSE NoId

\* --------------------------------------------------------- SessionStore
\* get(): none, and the record deleted, when it is idle beyond the TTL.
StoreGet(store, e, expired) ==
  IF store[e] = NoId THEN NoId
  ELSE IF expired THEN NoId
  ELSE store[e]

StoreAfterGet(store, e, expired) ==
  IF store[e] # NoId /\ expired THEN [store EXCEPT ![e] = NoId] ELSE store

\* set(): create the record or replace its cliSessionId.
StoreSet(store, e, id) == [store EXCEPT ![e] = id]

\* remove()
StoreRemove(store, e) == [store EXCEPT ![e] = NoId]

\* ---------------------------------------------------- the SSE translator
\* Mutant: the first id seen is kept.
CaptureSessionId_KeepsFirst(cap, sid) == IF cap # NoId THEN cap ELSE sid

\* x = r.session_id || x
CaptureSessionId(cap, sid) == IF sid # NoId THEN sid ELSE cap

sendSyntheticStream(text) ==
  <<Frame("message_start", NoText),
    Frame("content_block_start", NoText),
    Frame("content_block_delta", text),
    Frame("content_block_stop", NoText),
    Frame("message_delta", NoText),
    Frame("message_stop", NoText)>>

\* The closing frames written for a result record once a start was sent.
TerminalFrames(open) ==
  (IF open THEN <<Frame("content_block_stop", NoText)>> ELSE <<>>)
    \o <<Frame("message_delta", NoText), Frame("message_stop", NoText)>>

\* The translator's variables as one record; thrown: the loop body threw.
T == [sent |-> sentMessageStart, open |-> hasOpenBlock, text |-> resultText,
      cap |-> capturedSessionId, frames |-> frames, thrown |-> FALSE]

Send(t, kind, text) == [t EXCEPT !.frames = Append(@, Frame(kind, text))]

\* handleStreaming, first loop: one message_start record.
OnMessageStart1(t) ==
  IF t.sent THEN t
  ELSE [Send(t, "message_start", NoText) EXCEPT !.sent = TRUE]

\* content_block_start (both loops; the caller checks sentMessageStart).
OnBlockStart(t, r) ==
  IF r.btype = "tool_use" THEN t
  ELSE [Send(t, "content_block_start", NoText) EXCEPT !.open = TRUE]

\* content_block_delta (both loops).
OnBlockDelta(t, r) ==
  IF r.dtype # "absent" /\ r.dtype # "text_delta" THEN t
  ELSE [Send(t, "content_block_delta", r.text) EXCEPT
          !.text = IF r.dtype = "text_delta" THEN @ \o r.text ELSE @]

\* content_block_stop (both loops; the caller checks sentMessageStart).
OnBlockStop(t) ==
  IF ~t.open THEN t
  ELSE [Send(t, "content_block_stop", NoText) EXCEPT !.open = FALSE]

\* Mutant: the synthesized delta carries the buffer as it was before the record.
OnResult1_StaleText(t, r) ==
  [t EXCEPT !.text = IF r.text # NoText THEN r.text ELSE t.text,
            !.frames = IF ~t.sent THEN @ \o sendSyntheticStream(t.text)
                       ELSE @ \o TerminalFrames(t.open)]

\* The result record in the first loop: the flag stays as it is.
OnResult1(t, r) ==
  LET text == IF r.text # NoText THEN r.text ELSE t.text
  IN  [t EXCEPT !.text = text,
                !.frames = IF ~t.sent THEN @ \o sendSyntheticStream(text)
                           ELSE @ \o TerminalFrames(t.open)]

\* The result record in the retry loop: the flag is set after a synthesis.
OnResult2(t, r) ==
  LET text == IF r.text # NoText THEN r.text ELSE t.text
  IN  [t EXCEPT !.text = text,
                !.sent = TRUE,
                !.frames = IF ~t.sent THEN @ \o sendSyntheticStream(text)
                           ELSE @ \o TerminalFrames(t.open)]

\* Mutant: no test of parent_tool_use_id; a ping is forwarded, a result
\* closes the message, anything else is dropped.
Translate1_NoParentTest(t, r, sid) ==
  IF r.type = "stream_event" /\ r.etype = "ping" THEN Send(t, "ping", NoText)
  ELSE IF r.type = "result" THEN OnResult1(t, r)
  ELSE t

\* One record through the first loop of handleStreaming.
Translate1(t, r, sid) ==
  IF r.type = "stream_event" THEN
    LET c == [t EXCEPT !.cap = CaptureSessionId(@, sid)]
    IN  IF r.parent THEN c
        ELSE IF r.etype = "absent" THEN [c EXCEPT !.thrown = TRUE]
        ELSE IF r.etype = "message_start" THEN OnMessageStart1(c)
        ELSE IF r.etype = "content_block_start"
          THEN (IF ~c.sent THEN c ELSE OnBlockStart(c, r))
        ELSE IF r.etype = "content_block_delta"
          THEN (IF ~c.sent THEN c ELSE OnBlockDelta(c, r))
        ELSE IF r.etype = "content_block_stop"
          THEN (IF ~c.sent THEN c ELSE OnBlockStop(c))
        ELSE IF r.etype = "ping" THEN Send(c, "ping", NoText)
        ELSE c
  ELSE IF r.type = "result"
    THEN OnResult1([t EXCEPT !.cap = CaptureSessionId(@, sid)], r)
  ELSE t

\* One record through the retry loop of handleStreaming.
Translate2(t, r, sid) ==
  IF r.type = "stream_event" THEN
    LET c == [t EXCEPT !.cap = CaptureSessionId(@, sid)]
    IN  IF r.parent THEN c
        ELSE IF r.etype = "absent" THEN [c EXCEPT !.thrown = TRUE]
        ELSE IF r.etype = "message_start" /\ ~c.sent
          THEN [Send(c, "message_start", NoText) EXCEPT !.sent = TRUE]
        ELSE IF r.etype = "content_block_start" /\ c.sent
          THEN OnBlockStart(c, r)
        ELSE IF r.etype = "content_block_delta" /\ c.sent
          THEN OnBlockDelta(c, r)
        ELSE IF r.etype = "content_block_stop" /\ c.sent /\ c.open
          THEN OnBlockStop(c)
        ELSE c
  ELSE IF r.type = "result"
    THEN OnResult2([t EXCEPT !.cap = CaptureSessionId(@, sid)], r)
  ELSE t

\* One record through the loop of handleNonStreaming.
TranslateB(t, r, sid) ==
  IF r.type = "result" THEN
    [t EXCEPT !.cap = CaptureSessionId(@, sid),
              !.text = IF @ = NoText /\ r.text # NoText THEN r.text ELSE @]
  ELSE IF r.type = "stream_event" THEN
    [t EXCEPT !.cap = CaptureSessionId(@, sid),
              !.text = IF r.etype = "content_block_delta" /\ r.dtype = "text_delta"
                       THEN @ \o r.text ELSE @]
  ELSE t

SetT(n) ==
  /\ sentMessageStart' = n.sent
  /\ hasOpenBlock' = n.open
  /\ resultText' = n.text
  /\ capturedSessionId' = n.cap
  /\ frames' = n.frames

\* ------------------------------------------------------------ invocations
LogEntry(resume) == [resume |-> resume, outcome |-> "running", sentAtFail |-> FALSE]

Mark(log, o, sent) ==
  [log EXCEPT ![Len(log)] = [@ EXCEPT !.outcome = o, !.sentAtFail = sent]]

\* invokeClaudeCLI(cliOptions): spawn("claude", args); with --resume the CLI
\* reports the resumed session id or a new one, without it a new one.
Spawn(log, pr, resume, t, k) ==
  /\ invSid' \in (IF resume # NoId THEN {resume} ELSE {}) \cup {FreshId(t, k)}
  /\ nYield' = 0
  /\ procs' = Append(pr, "alive")
  /\ invLog' = Append(log, LogEntry(resume))
  /\ obsSid' = NoId

\* The subprocess of invocation i exits (an event of the environment).
ProcExit(i) ==
  /\ pc \in {"s1", "s1wait", "s2", "b", "bwait", "ret", "err"}
  /\ i \in 1..Len(procs)
  /\ procs[i] = "alive"
  /\ procs' = [procs EXCEPT ![i] = "exited"]
  /\ UNCHANGED <<sessions, turn, pc, mode, ext, cliSessionId, response,
                 optSessionId, attempt, sentMessageStart, hasOpenBlock,
                 resultText, capturedSessionId, frames, closed, ended, invSid,
                 nYield, invLog, hLive, obsSid, bareResult, dead, cli>>

\* Mutant: the test on the exit code is inverted.
ExitFails_ZeroOnly(code, stderr) == code = 0 /\ stderr # NoText

\* waitForExit resolved; the generator throws when the exit code is not 0
\* and stderr text was captured.
ExitFails(code, stderr) == code # 0 /\ stderr # NoText

\* ---------------------------------------------------------- messagesHandler
\* A request arrives: the session lookup, then the handler starts and spawns
\* its first invocation.
NewRequest(e, m, expired) ==
  /\ pc \in {"idle", "done"}
  /\ turn < MaxTurns
  /\ turn' = turn + 1
  /\ ext' = e
  /\ mode' = m
  /\ sessions' = StoreAfterGet(sessions, e, expired)
  /\ cliSessionId' = StoreGet(sessions, e, expired)
  /\ hLive' = IF expired THEN NoId ELSE sessions[e]
  /\ optSessionId' = cliSessionId'
  /\ attempt' = 0
  /\ response' = None
  /\ sentMessageStart' = FALSE
  /\ hasOpenBlock' = FALSE
  /\ resultText' = NoText
  /\ capturedSessionId' = NoId
  /\ frames' = <<>>
  /\ bareResult' = None
  /\ closed' = FALSE
  /\ ended' = FALSE
  /\ pc' = IF m = "stream" THEN "s1" ELSE "b"
  /\ Spawn(<<>>, <<>>, cliSessionId', turn + 1, 1)
  /\ UNCHANGED <<dead, cli>>

\* The resume of the stored id failed, and the last invocation of the request
\* ended normally after a record of it carried a session id.
RetryReturnedId ==
  /\ hLive # NoId
  /\ Len(invLog) >= 2
  /\ invLog[1].resume = hLive
  /\ invLog[1].outcome = "failed"
  /\ invLog[Len(invLog)].outcome = "ok"
  /\ obsSid # NoId

\* res.headersSent: handleStreaming flushes the SSE headers when it starts.
headersSent == mode = "stream" \/ response # None

\* Mutant: nothing is stored for a request whose client went away.
MessagesTail_DropsOnClose ==
  /\ pc = "ret"
  /\ sessions' = IF capturedSessionId # NoId /\ ~closed
                 THEN StoreSet(sessions, ext, capturedSessionId) ELSE sessions
  /\ response' = IF mode = "buffered" THEN "ok" ELSE response
  /\ pc' = "done"
  /\ dead' = IF RetryReturnedId THEN dead \cup {<<ext, hLive, turn>>} ELSE dead
  /\ UNCHANGED <<turn, mode, ext, cliSessionId, optSessionId, attempt,
                 sentMessageStart, hasOpenBlock, resultText, capturedSessionId,
                 frames, closed, ended, invSid, nYield, procs, invLog, hLive,
                 obsSid, bareResult, cli>>

\* The tail of messagesHandler after the handler returned.
MessagesTail ==
  /\ pc = "ret"
  /\ sessions' = IF capturedSessionId # NoId
                 THEN StoreSet(sessions, ext, capturedSessionId) ELSE sessions
  /\ response' = IF mode = "buffered" THEN "ok" ELSE response
  /\ pc' = "done"
  /\ dead' = IF RetryReturnedId THEN dead \cup {<<ext, hLive, turn>>} ELSE dead
  /\ UNCHANGED <<turn, mode, ext, cliSessionId, optSessionId, attempt,
                 sentMessageStart, hasOpenBlock, resultText, capturedSessionId,
                 frames, closed, ended, invSid, nYield, procs, invLog, hLive,
                 obsSid, bareResult, cli>>

\* The catch block of messagesHandler.
MessagesCatch ==
  /\ pc = "err"
  /\ sessions' = IF cliSessionId # NoId THEN StoreRemove(sessions, ext) ELSE sessions
  /\ response' = IF ~headersSent THEN "500" ELSE response
  /\ pc' = "done"
  /\ UNCHANGED <<turn, mode, ext, cliSessionId, optSessionId, attempt,
                 sentMessageStart, hasOpenBlock, resultText, capturedSessionId,
                 frames, closed, ended, invSid, nYield, procs, invLog, hLive,
                 obsSid, bareResult, dead, cli>>

\* ----------------------------------------------------------- handleStreaming
ErrText == "Error"

\* The loop was left by break (res.closed): the generator is returned, which
\* runs its finally block and does not wait for the exit; then res.end().
BreakLoop ==
  /\ invLog' = Mark(invLog, "aborted", sentMessageStart)
  /\ ended' = TRUE
  /\ pc' = "ret"
  /\ UNCHANGED <<sessions, turn, mode, ext, cliSessionId, response,
                 optSessionId, attempt, sentMessageStart, hasOpenBlock,
                 resultText, capturedSessionId, frames, closed, invSid, nYield,
                 procs, hLive, obsSid, bareResult, dead, cli>>

\* Mutant: the retry keeps the resume id.
ResumeAfterCatch1_Keeps(sent, cliSid, optSid) == optSid

\* cliOptions.sessionId after the catch block of the first loop.
ResumeAfterCatch1(sent, cliSid, optSid) ==
  IF ~sent /\ cliSid # NoId THEN NoId ELSE optSid

\* The catch block of the first loop, the translator being in state n: a
\* retry is prepared if no message_start was sent, else the stream is ended.
Catch1(n, outcome) ==
  /\ SetT(n)
  /\ invLog' = Mark(invLog, outcome, n.sent)
  /\ optSessionId' = ResumeAfterCatch1(n.sent, cliSessionId, optSessionId)
  /\ pc' = IF ~n.sent THEN "s1wait" ELSE "ret"
  /\ ended' = n.sent
  /\ UNCHANGED <<sessions, turn, mode, ext, cliSessionId, response, attempt,
                 closed, invSid, nYield, procs, hLive, dead, cli>>

\* The first loop takes the next record the generator yields.
Handle1(r) ==
  /\ pc = "s1"
  /\ nYield < MaxRecords
  /\ IF closed THEN BreakLoop
     ELSE LET n == Translate1(T, r, RecSid(r)) IN
          IF n.thrown
            THEN Catch1(n, "threw") /\ obsSid' = obsSid /\ bareResult' = bareResult
            ELSE /\ SetT(n)
                 /\ nYield' = nYield + 1
                 /\ obsSid' = CaptureSessionId(obsSid,
                                IF r.type \in {"stream_event", "result"}
                                THEN RecSid(r) ELSE NoId)
                 /\ bareResult' = IF r.type = "result" /\ frames = <<>>
                                  THEN r.text ELSE bareResult
                 /\ UNCHANGED <<sessions, turn, pc, mode, ext, cliSessionId,
                                response, optSessionId, attempt, closed, ended,
                                invSid, procs, invLog, hLive, dead, cli>>

\* The generator of the first loop finishes: drained, exit confirmed.
End1(code, stderr) ==
  /\ pc = "s1"
  /\ procs[cur] = "exited"
  /\ IF ExitFails(code, stderr)
       THEN Catch1(T, "failed") /\ UNCHANGED <<obsSid, bareResult>>
       ELSE /\ invLog' = Mark(invLog, "ok", sentMessageStart)
            /\ ended' = TRUE
            /\ pc' = "ret"
            /\ UNCHANGED <<sessions, turn, mode, ext, cliSessionId, response,
                           optSessionId, attempt, sentMessageStart, hasOpenBlock,
                           resultText, capturedSessionId, frames, closed, invSid,
                           nYield, procs, hLive, obsSid, bareResult, dead, cli>>

\* After RETRY_DELAY_MS the retry invocation is spawned.
RetrySpawn ==
  /\ pc = "s1wait"
  /\ pc' = "s2"
  /\ Spawn(invLog, procs, optSessionId, turn, 2)
  /\ UNCHANGED <<sessions, turn, mode, ext, cliSessionId, response,
                 optSessionId, attempt, sentMessageStart, hasOpenBlock,
                 resultText, capturedSessionId, frames, closed, ended, hLive,
                 bareResult, dead, cli>>

\* The catch block of the retry loop: the error is sent as a synthetic stream.
Catch2(n, outcome) ==
  /\ SetT([n EXCEPT !.frames = @ \o sendSyntheticStream(ErrText)])
  /\ invLog' = Mark(invLog, outcome, n.sent)
  /\ ended' = TRUE
  /\ pc' = "ret"
  /\ UNCHANGED <<sessions, turn, mode, ext, cliSessionId, response,
                 optSessionId, attempt, closed, invSid, nYield, procs, hLive,
                 obsSid, bareResult, dead, cli>>

\* The retry loop takes the next record.
Handle2(r) ==
  /\ pc = "s2"
  /\ nYield < MaxRecords
  /\ IF closed THEN BreakLoop
     ELSE LET n == Translate2(T, r, RecSid(r)) IN
          IF n.thrown
            THEN Catch2(n, "threw")
            ELSE /\ SetT(n)
                 /\ nYield' = nYield + 1
                 /\ obsSid' = CaptureSessionId(obsSid,
                                IF r.type \in {"stream_event", "result"}
                                THEN RecSid(r) ELSE NoId)
                 /\ bareResult' = IF r.type = "result" /\ frames = <<>>
                                  THEN r.text ELSE bareResult
                 /\ UNCHANGED <<sessions, turn, pc, mode, ext, cliSessionId,
                                response, optSessionId, attempt, closed, ended,
                                invSid, procs, invLog, hLive, dead, cli>>

\* The generator of the retry loop finishes.
End2(code, stderr) ==
  /\ pc = "s2"
  /\ procs[cur] = "exited"
  /\ IF ExitFails(code, stderr)
       THEN Catch2(T, "failed")
       ELSE /\ invLog' = Mark(invLog, "ok", sentMessageStart)
            /\ ended' = TRUE
            /\ pc' = "ret"
            /\ UNCHANGED <<sessions, turn, mode, ext, cliSessionId, response,
                           optSessionId, attempt, sentMessageStart, hasOpenBlock,
                           resultText, capturedSessionId, frames, closed, invSid,
                           nYield, procs, hLive, obsSid, bareResult, dead, cli>>

\* The client closes the connection of a streaming request.
ClientDisconnect ==
  /\ pc \in {"s1", "s1wait", "s2"}
  /\ ~closed
  /\ closed' = TRUE
  /\ UNCHANGED <<sessions, turn, pc, mode, ext, cliSessionId, response,
                 optSessionId, attempt, sentMessageStart, hasOpenBlock,
                 resultText, capturedSessionId, frames, ended, invSid, nYield,
                 procs, invLog, hLive, obsSid, bareResult, dead, cli>>

\* -------------------------------------------------------- handleNonStreaming
\* cliOptions.sessionId for retry number a (a >= 1).
ResumeForRetry(a, cliSid, optSid) ==
  IF a = 1 /\ cliSid # NoId THEN NoId ELSE optSid

HandleB(r) ==
  /\ pc = "b"
  /\ nYield < MaxRecords
  /\ SetT(TranslateB(T, r, RecSid(r)))
  /\ nYield' = nYield + 1
  /\ obsSid' = CaptureSessionId(obsSid,
                 IF r.type \in {"stream_event", "result"} THEN RecSid(r) ELSE NoId)
  /\ UNCHANGED <<sessions, turn, pc, mode, ext, cliSessionId, response,
                 optSessionId, attempt, closed, ended, invSid, procs, invLog,
                 hLive, bareResult, dead, cli>>

\* The generator finishes: the response is returned, or the attempt failed
\* and the loop goes on to the next attempt or throws lastError.
EndB(code, stderr) ==
  /\ pc = "b"
  /\ procs[cur] = "exited"
  /\ IF ExitFails(code, stderr)
       THEN /\ invLog' = Mark(invLog, "failed", FALSE)
            /\ attempt' = attempt + 1
            /\ pc' = IF attempt + 1 <= MAX_RETRIES THEN "bwait" ELSE "err"
       ELSE /\ invLog' = Mark(invLog, "ok", FALSE)
            /\ attempt' = attempt
            /\ pc' = "ret"
  /\ UNCHANGED <<sessions, turn, mode, ext, cliSessionId, response,
                 optSessionId, sentMessageStart, hasOpenBlock, resultText,
                 capturedSessionId, frames, closed, ended, invSid, nYield,
                 procs, hLive, obsSid, bareResult, dead, cli>>

\* After RETRY_DELAY_MS * attempt the next attempt starts.
RetryB ==
  /\ pc = "bwait"
  /\ optSessionId' = ResumeForRetry(attempt, cliSessionId, optSessionId)
  /\ resultText' = NoText
  /\ pc' = "b"
  /\ Spawn(invLog, procs, optSessionId', turn, attempt + 1)
  /\ UNCHANGED <<sessions, turn, mode, ext, cliSessionId, response, attempt,
                 sentMessageStart, hasOpenBlock, capturedSessionId, frames,
                 closed, ended, hLive, bareResult, dead, cli>>

\* ------------------------------------------------------------------- Spec
InitServer ==
  /\ sessions \in [ExtIds -> {NoId, 1, 2}]
  /\ \A e \in ExtIds : sessions[e] \in {NoId, InitIdOf[e]}
  /\ turn = 0
  /\ pc = "idle"
  /\ mode = None
  /\ ext = None
  /\ cliSessionId = NoId
  /\ response = None
  /\ optSessionId = NoId
  /\ attempt = 0
  /\ sentMessageStart = FALSE
  /\ hasOpenBlock = FALSE
  /\ resultText = NoText
  /\ capturedSessionId = NoId
  /\ frames = <<>>
  /\ closed = FALSE
  /\ ended = FALSE
  /\ invSid = NoId
  /\ nYield = 0
  /\ procs = <<>>
  /\ invLog = <<>>
  /\ hLive = NoId
  /\ obsSid = NoId
  /\ bareResult = None
  /\ dead = {}

Init ==
  /\ InitServer
  /\ cli = None

\* The records of the orchestration runs: those that decide the flags, the
\* captured session id, the text and the exceptions of a request.
CoreRecords ==
  {r \in Records :
     \/ r.type = "result" /\ r.text = "a"
     \/ /\ r.type = "stream_event"
        /\ ~r.parent
        /\ \/ r.etype = "message_start"
           \/ r.etype = "absent" /\ ~r.sid
           \/ r.etype = "content_block_delta" /\ r.text = "x" /\ r.sid}

ExitCodes == {0, 1}
StderrTexts == {NoText, "err"}

\* Requests one after the other, buffered or streaming, for two external ids.
Next ==
  \/ \E e \in ExtIds, m \in {"stream", "buffered"}, x \in BOOLEAN : NewRequest(e, m, x)
  \/ \E i \in 1..(MAX_RETRIES + 1) : ProcExit(i)
  \/ \E r \in CoreRecords : Handle1(r)
  \/ \E c \in ExitCodes, s \in StderrTexts : End1(c, s)
  \/ RetrySpawn
  \/ \E r \in CoreRecords : Handle2(r)
  \/ \E c \in ExitCodes, s \in StderrTexts : End2(c, s)
  \/ ClientDisconnect
  \/ \E r \in CoreRecords : HandleB(r)
  \/ \E c \in ExitCodes, s \in StderrTexts : EndB(c, s)
  \/ RetryB
  \/ MessagesTail
  \/ MessagesCatch

Spec == Init /\ [][Next]_vars

\* ------------------------------------------------------------------ SpecT
\* One streaming request of a client that stays connected, with an empty
\* store, over every kind of record (a stream_event carrying its session id).
RecordsT == {r \in Records : r.type = "stream_event" => r.sid}

InitT ==
  /\ Init
  /\ \A e \in ExtIds : sessions[e] = NoId

NextT ==
  \/ NewRequest("e1", "stream", FALSE)
  \/ \E i \in 1..2 : ProcExit(i)
  \/ \E r \in RecordsT : Handle1(r)
  \/ \E c \in ExitCodes, s \in StderrTexts : End1(c, s)
  \/ RetrySpawn
  \/ \E r \in RecordsT : Handle2(r)
  \/ \E c \in ExitCodes, s \in StderrTexts : End2(c, s)
  \/ MessagesTail

SpecT == InitT /\ [][NextT]_vars

\* ---------------------------------------------------------------- SpecCLI
\* One run of invokeClaudeCLI whose consumer takes every record. A line of
\* stdout is blank, a JSON record or other text; it is numbered as written.
LineKinds == {"json", "blank", "text"}
Line(kind, id) == [kind |-> kind, id |-> id]

\* The stdout "data" listener: only the non-blank parts are pushed.
RawPush(raw, l) == IF l.kind # "blank" THEN Append(raw, l) ELSE raw

\* The subprocess writes one complete line while stdout is open: the raw
\* listener buffers it and readline queues it.
StdoutData(kind) ==
  /\ cli.phase = "stream"
  /\ ~cli.eof
  /\ cli.written < MaxLines
  /\ cli' = [cli EXCEPT !.written = @ + 1,
                        !.rawLines = RawPush(@, Line(kind, cli.written + 1)),
                        !.rlQueue = Append(@, Line(kind, cli.written + 1))]
  /\ UNCHANGED serverVars

\* stdout reaches its end.
StdoutEnd ==
  /\ cli.phase = "stream"
  /\ ~cli.eof
  /\ cli' = [cli EXCEPT !.eof = TRUE]
  /\ UNCHANGED serverVars

\* One pass of the readline loop: rawLineIndex advances for every line, and
\* a JSON line is yielded.
RlLine ==
  /\ cli.phase = "stream"
  /\ cli.rlQueue # <<>>
  /\ LET l == Head(cli.rlQueue) IN
       cli' = [cli EXCEPT !.rlQueue = Tail(@),
                          !.rawLineIndex = @ + 1,
                          !.yielded = IF l.kind = "json" THEN Append(@, l.id) ELSE @]
  /\ UNCHANGED serverVars

\* readline reports the end of input: the settle wait starts.
RlEnd ==
  /\ cli.phase = "stream"
  /\ cli.eof
  /\ cli.rlQueue = <<>>
  /\ cli' = [cli EXCEPT !.phase = "settle"]
  /\ UNCHANGED serverVars

\* A complete line reaches the raw listener during the settle wait; readline
\* has ended and does not see it.
LateData(kind) ==
  /\ cli.phase = "settle"
  /\ Cardinality(cli.late) < MaxLate
  /\ cli.written < MaxLines + MaxLate
  /\ cli' = [cli EXCEPT !.written = @ + 1,
                        !.rawLines = RawPush(@, Line(kind, cli.written + 1)),
                        !.late = @ \cup {Line(kind, cli.written + 1)}]
  /\ UNCHANGED serverVars

\* The settle wait is over: the drain loop starts at rawLineIndex.
SettleElapsed ==
  /\ cli.phase = "settle"
  /\ cli' = [cli EXCEPT !.phase = "drain", !.i = cli.rawLineIndex]
  /\ UNCHANGED serverVars

\* One pass of the drain loop over rawLines[i] (0-based).
DrainStep ==
  /\ cli.phase = "drain"
  /\ cli.i < Len(cli.rawLines)
  /\ LET l == cli.rawLines[cli.i + 1] IN
       cli' = [cli EXCEPT !.i = @ + 1,
                          !.yielded = IF l.kind = "json" THEN Append(@, l.id) ELSE @]
  /\ UNCHANGED serverVars

\* The drain loop is over; the timers are cleared and the exit is awaited.
DrainEnd ==
  /\ cli.phase = "drain"
  /\ cli.i >= Len(cli.rawLines)
  /\ cli' = [cli EXCEPT !.phase = "wait"]
  /\ UNCHANGED serverVars

\* The subprocess closes, after its stdout.
ProcClose(code, stderr) ==
  /\ cli.eof
  /\ ~cli.exited
  /\ cli' = [cli EXCEPT !.exited = TRUE, !.exitCode = code, !.stderrData = stderr]
  /\ UNCHANGED serverVars

\* String.prototype.trim() on the captured stderr texts.
Trim(text) == IF text = " " THEN NoText ELSE text

\* The stderr texts of the generator runs: none, white space only, a message.
StderrCLI == StderrTexts \cup {" "}

\* waitForExit resolves; the generator returns, or throws an Error whose
\* message holds the exit code and the trimmed stderr text.
WaitForExit ==
  /\ cli.phase = "wait"
  /\ cli.exited
  /\ cli' = IF ExitFails(cli.exitCode, cli.stderrData)
            THEN [cli EXCEPT !.phase = "threw",
                             !.err = [code |-> cli.exitCode,
                                      text |-> Trim(cli.stderrData)]]
            ELSE [cli EXCEPT !.phase = "done"]
  /\ UNCHANGED serverVars

InitCLI ==
  /\ InitServer
  /\ \A e \in ExtIds : sessions[e] = NoId
  /\ cli = [phase |-> "stream", eof |-> FALSE, written |-> 0,
            rawLines |-> <<>>, rlQueue |-> <<>>, rawLineIndex |-> 0,
            yielded |-> <<>>, late |-> {}, i |-> 0,
            exited |-> FALSE, exitCode |-> 0, stderrData |-> NoText,
            err |-> [code |-> 0, text |-> NoText]]

NextCLI ==
  \/ \E k \in LineKinds : StdoutData(k)
  \/ StdoutEnd
  \/ RlLine
  \/ RlEnd
  \/ \E k \in LineKinds : LateData(k)
  \/ SettleElapsed
  \/ DrainStep
  \/ DrainEnd
  \/ \E c \in ExitCodes, t \in StderrCLI : ProcClose(c, t)
  \/ WaitForExit

SpecCLI == InitCLI /\ [][NextCLI]_vars

\* ----------------------------------------------------------------- SpecTO
\* The deadlines of one invokeClaudeCLI call. Time is counted in ticks of
\* ACTIVE_CHECK_INTERVAL_MS; the three durations keep the order they have in
\* the source (probe interval < idle deadline < hard deadline). The 3000 ms
\* between SIGTERM and SIGKILL is shorter than one tick.
ACTIVE_CHECK_INTERVAL_MS == 1
CLI_IDLE_TIMEOUT_MS == 3
CLI_HARD_TIMEOUT_MS == 6
MaxTime == 8         \* ticks observed

\* A cleared (or fired) timer.
Off == 0 - 1

\* resetIdleTimer()
resetIdleTimer(c) == [c EXCEPT !.idleAt = c.now + CLI_IDLE_TIMEOUT_MS]

\* Mutant: a positive probe leaves the idle timer alone.
OnProbe_NoReset(c, active) == c

\* The body of the liveness probe: hasActiveChildren(pid) resets the timer.
OnProbe(c, active) == IF active THEN resetIdleTimer(c) ELSE c

\* Mutant: SIGTERM only, no forced kill is scheduled.
killProc_TermOnly(c) ==
  [c EXCEPT !.signals = IF c.proc = "running" THEN Append(@, "SIGTERM") ELSE @]

\* killProc(proc): SIGTERM now, SIGKILL scheduled 3000 ms later. A signal
\* reaches the subprocess only while it runs.
killProc(c) ==
  [c EXCEPT !.signals = IF c.proc = "running" THEN Append(@, "SIGTERM") ELSE @,
            !.killPending = TRUE]

\* The finally block: both timers and the probe interval are cleared.
ClearTimers(c) == [c EXCEPT !.hardAt = Off, !.idleAt = Off, !.probeAt = Off]

\* waitForExit(proc) resolves with code ?? 0; the generator then throws or returns.
Resolved(c) ==
  LET code == IF c.bySignal THEN 0 ELSE c.exitCode
  IN  [c EXCEPT !.phase = IF ExitFails(code, c.stderrData) THEN "threw" ELSE "done"]

\* Time passes: every timer that is due has fired, and so has a pending SIGKILL.
Tick ==
  /\ cli.now < MaxTime
  /\ cli.hardAt # cli.now /\ cli.idleAt # cli.now /\ cli.probeAt # cli.now
  /\ ~cli.killPending
  /\ cli' = [cli EXCEPT !.now = @ + 1, !.atYield = FALSE]
  /\ UNCHANGED serverVars

\* The subprocess writes a line and the readline loop takes it: the idle
\* timer is reset, and the record is yielded to the consumer.
LineRead ==
  /\ cli.phase = "loop"
  /\ cli.proc = "running"
  /\ cli.stdoutOpen
  /\ cli' = [resetIdleTimer(cli) EXCEPT !.lastLine = cli.now, !.atYield = TRUE]
  /\ UNCHANGED serverVars

\* The probe interval fires.
Probe(active) ==
  /\ cli.probeAt = cli.now
  /\ active => cli.proc = "running"
  /\ cli' = [OnProbe(cli, active) EXCEPT
               !.probeAt = cli.now + ACTIVE_CHECK_INTERVAL_MS,
               !.allActive = @ /\ active,
               !.lastActive = IF active THEN cli.now ELSE @,
               !.probes = @ + 1]
  /\ UNCHANGED serverVars

\* The idle timer fires.
IdleFires ==
  /\ cli.idleAt = cli.now
  /\ cli' = [killProc(cli) EXCEPT !.idleAt = Off,
                                  !.idleFired = TRUE,
                                  !.timedOut = @ \/ cli.proc = "running"]
  /\ UNCHANGED serverVars

\* The hard timer fires.
HardFires ==
  /\ cli.hardAt = cli.now
  /\ cli' = [killProc(cli) EXCEPT !.hardAt = Off,
                                  !.hardFired = TRUE,
                                  !.timedOut = @ \/ cli.proc = "running"]
  /\ UNCHANGED serverVars

\* The timer killProc scheduled fires: SIGKILL.
SigKill ==
  /\ cli.killPending
  /\ cli' = [cli EXCEPT !.killPending = FALSE,
                        !.signals = IF cli.proc = "running"
                                    THEN Append(@, "SIGKILL") ELSE @]
  /\ UNCHANGED serverVars

\* The subprocess closes its stdout and keeps running.
StdoutCloses ==
  /\ cli.proc = "running"
  /\ cli.stdoutOpen
  /\ cli' = [cli EXCEPT !.stdoutOpen = FALSE]
  /\ UNCHANGED serverVars

\* The subprocess exits by itself (also from its own SIGTERM handler).
ProcExits(code, stderr) ==
  /\ cli.proc = "running"
  /\ cli' = [cli EXCEPT !.proc = "exited", !.stdoutOpen = FALSE,
                        !.exitCode = code, !.stderrData = stderr]
  /\ UNCHANGED serverVars

\* The subprocess is ended by a signal it was sent: its exit code is null.
ProcKilled ==
  /\ cli.proc = "running"
  /\ cli.signals # <<>>
  /\ cli' = [cli EXCEPT !.proc = "exited", !.stdoutOpen = FALSE, !.bySignal = TRUE]
  /\ UNCHANGED serverVars

\* The "close" event of the subprocess; a waitForExit that is listening resolves.
CloseEvent ==
  /\ cli.proc = "exited"
  /\ ~cli.closeEmitted
  /\ cli' = IF cli.phase = "wait"
            THEN [Resolved(cli) EXCEPT !.closeEmitted = TRUE]
            ELSE [cli EXCEPT !.closeEmitted = TRUE]
  /\ UNCHANGED serverVars

\* readline ended and the drain is over: finally, then waitForExit(proc),
\* which resolves at once when proc.exitCode is not null.
LoopEnds ==
  /\ cli.phase = "loop"
  /\ ~cli.stdoutOpen
  /\ cli' = IF cli.proc = "exited" /\ ~cli.bySignal
            THEN Resolved(ClearTimers(cli))
            ELSE [ClearTimers(cli) EXCEPT !.phase = "wait"]
  /\ UNCHANGED serverVars

\* The consumer leaves its for-await loop on the record it was handed: the
\* generator runs its finally block and nothing after it.
ConsumerReturns ==
  /\ cli.phase = "loop"
  /\ cli.atYield
  /\ cli' = [ClearTimers(cli) EXCEPT !.phase = "returned"]
  /\ UNCHANGED serverVars

InitTO ==
  /\ InitServer
  /\ \A e \in ExtIds : sessions[e] = NoId
  /\ cli = [now |-> 0, phase |-> "loop",
            hardAt |-> CLI_HARD_TIMEOUT_MS, idleAt |-> CLI_IDLE_TIMEOUT_MS,
            probeAt |-> ACTIVE_CHECK_INTERVAL_MS, killPending |-> FALSE,
            proc |-> "running", stdoutOpen |-> TRUE, exitCode |-> 0,
            bySignal |-> FALSE, stderrData |-> NoText, closeEmitted |-> FALSE,
            signals |-> <<>>, allActive |-> TRUE, probes |-> 0, lastLine |-> 0,
            lastActive |-> 0, atYield |-> FALSE,
            idleFired |-> FALSE, hardFired |-> FALSE, timedOut |-> FALSE]

NextTO ==
  \/ Tick
  \/ LineRead
  \/ \E a \in BOOLEAN : Probe(a)
  \/ IdleFires
  \/ HardFires
  \/ SigKill
  \/ StdoutCloses
  \/ \E c \in ExitCodes, t \in StderrTexts : ProcExits(c, t)
  \/ ProcKilled
  \/ CloseEvent
  \/ LoopEnds
  \/ ConsumerReturns

SpecTO == InitTO /\ [][NextTO]_vars

\* SpecTO with the scheduling the event loop gives: a timer that is due
\* fires, the readline loop and the drain end once stdout is closed, and the
\* "close" event of an exited subprocess is emitted.
SpecTOLive ==
  /\ InitTO
  /\ [][NextTO]_vars
  /\ WF_vars(SigKill)
  /\ WF_vars(LoopEnds)
  /\ WF_vars(CloseEvent)

\* What a handler does when invocation number a + 1 of a request raised an
\* error: handleNonStreaming goes on to the next attempt while a < MAX_RETRIES,
\* handleStreaming retries once when no message_start was sent.
RetryFollows(m, a, sent) ==
  IF m = "buffered" THEN a < MAX_RETRIES ELSE a = 0 /\ ~sent

\* ---------------------------------------------------------------- SpecEnv
\* The environment handed to spawn("claude", ...). A variable name is the
\* sequence of its characters; an environment maps every name to its value
\* or to Unset.
Unset == "unset"
EnvValues == {"a", "b"}

CLAUDE == <<"C", "L", "A", "U", "D", "E">>
CODE == <<"C", "O", "D", "E">>
CLAUDECODE == CLAUDE \o CODE
CLAUDE_DEV == CLAUDE \o <<"_", "D", "E", "V">>
CLAUDE_CODE_ == CLAUDE \o <<"_">> \o CODE \o <<"_">>
CLAUDE_AGENT_ == CLAUDE \o <<"_", "A", "G", "E", "N", "T", "_">>

EnvNames ==
  {CLAUDECODE,
   CLAUDE_DEV,
   CLAUDE_CODE_,
   CLAUDE_CODE_ \o <<"X">>,
   CLAUDE_AGENT_ \o <<"X">>,
   CLAUDE \o <<"_">> \o CODE \o <<"X">>,
   CLAUDECODE \o <<"2">>,
   <<"P", "A", "T", "H">>}

\* String.prototype.startsWith
StartsWith(name, prefix) ==
  /\ Len(name) >= Len(prefix)
  /\ SubSeq(name, 1, Len(prefix)) = prefix

\* The test of the loop in invokeClaudeCLI.
DenyListed(key) ==
  \/ key = CLAUDECODE
  \/ StartsWith(key, CLAUDE_CODE_)
  \/ StartsWith(key, CLAUDE_AGENT_)
  \/ key = CLAUDE_DEV

\* The test of the loop at server startup.
DenyListedAtStartup(key) ==
  \/ key = CLAUDECODE
  \/ StartsWith(key, CLAUDE_CODE_)
  \/ StartsWith(key, CLAUDE_AGENT_)

\* Mutant: the variables are deleted from process.env itself.
BuildEnv_InPlace(ambient) ==
  LET env == [k \in EnvNames |-> IF DenyListed(k) THEN Unset ELSE ambient[k]]
  IN  [env |-> env, ambient |-> env]

\* const env = { ...process.env }; the deny-listed keys are deleted from the
\* copy. env: what spawn is given; ambient: process.env afterwards.
BuildEnv(ambient) ==
  [env |-> [k \in EnvNames |-> IF DenyListed(k) THEN Unset ELSE ambient[k]],
   ambient |-> ambient]

\* Server startup: the deny-listed variables are deleted from process.env.
StartupClean ==
  /\ cli.phase = "boot"
  /\ cli' = [cli EXCEPT !.phase = "up",
                        !.ambient = [k \in EnvNames |->
                                       IF DenyListedAtStartup(k) THEN Unset ELSE @[k]]]
  /\ UNCHANGED serverVars

\* invokeClaudeCLI builds the environment and spawns the subprocess.
SpawnWithEnv ==
  /\ cli.phase \in {"boot", "up"}
  /\ LET b == BuildEnv(cli.ambient) IN
       cli' = [cli EXCEPT !.phase = "spawned",
                          !.before = cli.ambient,
                          !.spawnEnv = b.env,
                          !.ambient = b.ambient]
  /\ UNCHANGED serverVars

InitEnv ==
  /\ InitServer
  /\ \A e \in ExtIds : sessions[e] = NoId
  /\ \E amb \in [EnvNames -> EnvValues \cup {Unset}] :
       cli = [phase |-> "boot", ambient |-> amb, before |-> amb,
              spawnEnv |-> [k \in EnvNames |-> Unset]]

NextEnv ==
  \/ StartupClean
  \/ SpawnWithEnv

SpecEnv == InitEnv /\ [][NextEnv]_vars

\* ------------------------------------------------------------------ SpecR
\* The loops of handleStreaming and handleNonStreaming driven record by
\* record, the subprocess left out: cli remembers the last record handled,
\* the loop that handled it and the handler's variables before and after it.
\* fwd is the concatenation of the text deltas forwarded (streaming) or
\* accumulated (buffered) in the running invocation, nfwd their number.
NoRecord == Rec("none", FALSE, FALSE, "-", "-", "-", NoText)

\* The record is a text delta that the loop took into its buffer.
TextDeltaTaken(loop, r, t, n) ==
  /\ r.type = "stream_event"
  /\ r.etype = "content_block_delta"
  /\ r.dtype = "text_delta"
  /\ IF loop = "b" THEN TRUE ELSE Len(n.frames) > Len(t.frames)

\* One record through the loop the handler is in.
TranslateIn(loop, t, r, sid) ==
  IF loop = "s1" THEN Translate1(t, r, sid)
  ELSE IF loop = "s2" THEN Translate2(t, r, sid)
  ELSE TranslateB(t, r, sid)

\* The loop takes the next record; an exception of the loop body goes to the
\* catch block of its loop.
Receive(r) ==
  /\ pc \in {"s1", "s2", "b"}
  /\ nYield < MaxRecords
  /\ LET n == TranslateIn(pc, T, r, RecSid(r))
         taken == TextDeltaTaken(pc, r, T, n)
     IN  /\ cli' = [rec |-> r, loop |-> pc, before |-> T, after |-> n,
                    fwd |-> IF taken THEN cli.fwd \o r.text ELSE cli.fwd,
                    nfwd |-> IF taken THEN cli.nfwd + 1 ELSE cli.nfwd]
         /\ IF ~n.thrown
              THEN SetT(n) /\ pc' = pc /\ nYield' = nYield + 1 /\ ended' = ended
            ELSE IF pc = "s1"
              THEN /\ SetT(n)
                   /\ pc' = IF n.sent THEN "end" ELSE "s2"
                   /\ nYield' = 0
                   /\ ended' = n.sent
            ELSE /\ SetT([n EXCEPT !.frames = @ \o sendSyntheticStream(ErrText)])
                 /\ pc' = "end"
                 /\ nYield' = nYield
                 /\ ended' = TRUE
  /\ UNCHANGED <<sessions, turn, mode, ext, cliSessionId, response,
                 optSessionId, attempt, closed, invSid, procs, invLog, hLive,
                 obsSid, bareResult, dead>>

\* The generator throws: the catch block of the loop the handler is in.
InvocationFails ==
  /\ pc \in {"s1", "s2", "b"}
  /\ IF pc = "s1" THEN
       /\ pc' = IF sentMessageStart THEN "end" ELSE "s2"
       /\ ended' = sentMessageStart
       /\ UNCHANGED <<frames, resultText, attempt, response, cli>>
     ELSE IF pc = "s2" THEN
       /\ pc' = "end"
       /\ ended' = TRUE
       /\ frames' = frames \o sendSyntheticStream(ErrText)
       /\ UNCHANGED <<resultText, attempt, response, cli>>
     ELSE
       /\ attempt' = attempt + 1
       /\ pc' = IF attempt + 1 <= MAX_RETRIES THEN "b" ELSE "end"
       /\ response' = IF attempt + 1 <= MAX_RETRIES THEN response ELSE "500"
       /\ resultText' = NoText
       /\ cli' = [cli EXCEPT !.fwd = NoText, !.nfwd = 0]
       /\ UNCHANGED <<frames, ended>>
  /\ nYield' = 0
  /\ UNCHANGED <<sessions, turn, mode, ext, cliSessionId, optSessionId,
                 sentMessageStart, hasOpenBlock, capturedSessionId, closed,
                 invSid, procs, invLog, hLive, obsSid, bareResult, dead>>

\* The generator returns: the stream is ended, or the JSON body is sent.
InvocationEnds ==
  /\ pc \in {"s1", "s2", "b"}
  /\ pc' = "end"
  /\ ended' = (mode = "stream")
  /\ response' = IF mode = "buffered" THEN "ok" ELSE response
  /\ UNCHANGED <<sessions, turn, mode, ext, cliSessionId, optSessionId,
                 attempt, sentMessageStart, hasOpenBlock, resultText,
                 capturedSessionId, frames, closed, invSid, nYield, procs,
                 invLog, hLive, obsSid, bareResult, dead, cli>>

\* The text reported for the turn: streamedText, or the text of the body.
FinalText ==
  IF mode = "buffered"
    THEN (IF resultText = NoText THEN "(no response)" ELSE resultText)
    ELSE resultText

InitR ==
  /\ sessions = [e \in ExtIds |-> NoId]
  /\ turn = 1
  /\ mode \in {"stream", "buffered"}
  /\ pc = IF mode = "stream" THEN "s1" ELSE "b"
  /\ ext = "e1"
  /\ cliSessionId = NoId
  /\ response = None
  /\ optSessionId = NoId
  /\ attempt = 0
  /\ sentMessageStart = FALSE
  /\ hasOpenBlock = FALSE
  /\ resultText = NoText
  /\ capturedSessionId = NoId
  /\ frames = <<>>
  /\ closed = FALSE
  /\ ended = FALSE
  /\ invSid = FreshId(1, 1)
  /\ nYield = 0
  /\ procs = <<>>
  /\ invLog = <<>>
  /\ hLive = NoId
  /\ obsSid = NoId
  /\ bareResult = None
  /\ dead = {}
  /\ cli = [rec |-> NoRecord, loop |-> None, before |-> T, after |-> T,
            fwd |-> NoText, nfwd |-> 0]

NextR ==
  \/ \E r \in Records : Receive(r)
  \/ InvocationFails
  \/ InvocationEnds

SpecR == InitR /\ [][NextR]_vars

\* ------------------------------------------------------------------ SpecD
\* One streaming request whose client may go away, the handler joined to the
\* timers of the invocation it is reading from: cli is the state of SpecTO
\* for the subprocess of the running invocation, with what the handler saw
\* when it found res.closed (seen, framesAtBreak, signalsAtBreak,
\* pendingAtBreak). The probe interval is left out.
MaxTimeD == 7        \* the hard deadline of the first invocation is reached
MaxYieldD == 2       \* records one invocation has translated at most

RecordsD ==
  {r \in Records :
     \/ r.type = "result" /\ r.text = "a" /\ r.sid
     \/ /\ r.type = "stream_event"
        /\ ~r.parent
        /\ r.sid
        /\ \/ r.etype = "message_start"
           \/ r.etype = "content_block_delta" /\ r.text = "x"}

\* The state of a generator that starts at time now.
NewTimers(now) ==
  [now |-> now, phase |-> "loop",
   hardAt |-> now + CLI_HARD_TIMEOUT_MS, idleAt |-> now + CLI_IDLE_TIMEOUT_MS,
   probeAt |-> Off, killPending |-> FALSE,
   proc |-> "running", stdoutOpen |-> TRUE, exitCode |-> 0,
   bySignal |-> FALSE, stderrData |-> NoText, closeEmitted |-> FALSE,
   signals |-> <<>>, allActive |-> TRUE, probes |-> 0, lastLine |-> now,
   lastActive |-> now, atYield |-> FALSE,
   idleFired |-> FALSE, hardFired |-> FALSE, timedOut |-> FALSE,
   seen |-> FALSE, framesAtBreak |-> <<>>, signalsAtBreak |-> <<>>,
   pendingAtBreak |-> FALSE]

\* Mutant: the generator ends its subprocess when its consumer leaves.
GeneratorReturn_Kills(c) == [killProc(ClearTimers(c)) EXCEPT !.phase = "returned"]

\* The consumer left its for-await loop: the generator is resumed with a
\* return at its yield, runs its finally block and is done.
GeneratorReturn(c) == [ClearTimers(c) EXCEPT !.phase = "returned"]

\* Time passes in SpecD.
TickD ==
  /\ cli.now < MaxTimeD
  /\ Tick

\* The subprocess writes a record, the generator yields it and the loop of
\* the handler takes it: res.closed is tested first.
YieldD(r) ==
  /\ pc \in {"s1", "s2"}
  /\ cli.phase = "loop"
  /\ cli.proc = "running"
  /\ cli.stdoutOpen
  /\ closed \/ nYield < MaxYieldD
  /\ IF closed
       THEN /\ cli' = [GeneratorReturn(resetIdleTimer(cli)) EXCEPT
                         !.seen = TRUE,
                         !.framesAtBreak = frames,
                         !.signalsAtBreak = cli.signals,
                         !.pendingAtBreak = cli.killPending]
            /\ invLog' = Mark(invLog, "aborted", sentMessageStart)
            /\ ended' = TRUE
            /\ pc' = "ret"
            /\ UNCHANGED <<sentMessageStart, hasOpenBlock, resultText,
                           capturedSessionId, frames, nYield, obsSid>>
       ELSE /\ cli' = [resetIdleTimer(cli) EXCEPT !.lastLine = cli.now]
            /\ SetT(TranslateIn(pc, T, r, RecSid(r)))
            /\ nYield' = nYield + 1
            /\ obsSid' = CaptureSessionId(obsSid, RecSid(r))
            /\ UNCHANGED <<invLog, ended, pc>>
  /\ UNCHANGED <<sessions, turn, mode, ext, cliSessionId, response,
                 optSessionId, attempt, closed, invSid, procs, hLive,
                 bareResult, dead>>

\* The generator the handler is reading from has returned or thrown.
GeneratorOverD ==
  /\ pc \in {"s1", "s2"}
  /\ cli.phase \in {"done", "threw"}
  /\ IF cli.phase = "done"
       THEN /\ invLog' = Mark(invLog, "ok", sentMessageStart)
            /\ ended' = TRUE
            /\ pc' = "ret"
            /\ UNCHANGED <<sessions, turn, mode, ext, cliSessionId, response,
                           optSessionId, attempt, sentMessageStart, hasOpenBlock,
                           resultText, capturedSessionId, frames, closed, invSid,
                           nYield, procs, hLive, obsSid, bareResult, dead, cli>>
       ELSE IF pc = "s1"
         THEN Catch1(T, "failed") /\ UNCHANGED <<obsSid, bareResult>>
         ELSE Catch2(T, "failed")

\* After RETRY_DELAY_MS the retry invocation is spawned, with its own timers.
RetrySpawnD ==
  /\ pc = "s1wait"
  /\ pc' = "s2"
  /\ Spawn(invLog, procs, optSessionId, turn, 2)
  /\ cli' = NewTimers(cli.now)
  /\ UNCHANGED <<sessions, turn, mode, ext, cliSessionId, response,
                 optSessionId, attempt, sentMessageStart, hasOpenBlock,
                 resultText, capturedSessionId, frames, closed, ended, hLive,
                 bareResult, dead>>

InitD ==
  /\ sessions = [e \in ExtIds |-> NoId]
  /\ turn = 1
  /\ pc = "s1"
  /\ mode = "stream"
  /\ ext = "e1"
  /\ cliSessionId = NoId
  /\ response = None
  /\ optSessionId = NoId
  /\ attempt = 0
  /\ sentMessageStart = FALSE
  /\ hasOpenBlock = FALSE
  /\ resultText = NoText
  /\ capturedSessionId = NoId
  /\ frames = <<>>
  /\ closed = FALSE
  /\ ended = FALSE
  /\ invSid = FreshId(1, 1)
  /\ nYield = 0
  /\ procs = <<"alive">>
  /\ invLog = <<LogEntry(NoId)>>
  /\ hLive = NoId
  /\ obsSid = NoId
  /\ bareResult = None
  /\ dead = {}
  /\ cli = NewTimers(0)

NextD ==
  \/ TickD
  \/ \E r \in RecordsD : YieldD(r)
  \/ IdleFires
  \/ HardFires
  \/ SigKill
  \/ StdoutCloses
  \/ \E c \in ExitCodes, t \in StderrTexts : ProcExits(c, t)
  \/ ProcKilled
  \/ CloseEvent
  \/ LoopEnds
  \/ GeneratorOverD
  \/ RetrySpawnD
  \/ ClientDisconnect
  \/ MessagesTail

SpecD == InitD /\ [][NextD]_vars

\* ------------------------------------------------------------------ SpecS
\* The SessionStore class by itself: its Map, the sessions file and the
\* clock. cli holds the Map (sessions: a set of entries [key, val]), the
\* content of SESSIONS_FILE (file), Date.now() (now), whether the two
\* interval timers run (timers: the store is in service until destroy() is
\* called at shutdown), and the last operation with its argument, its return
\* value and the line it logged. Time is counted in ticks; the
\* time-to-live is ttlMs ticks.
MaxNow == 2          \* ticks observed
MaxCount == 2        \* messageCount of a record at most
ttlMs == 1

CliIds == {1, 2}

\* The calls of set() that are made: e1 is given either id, e2 the second.
SetCalls == {<<"e1", 1>>, <<"e1", 2>>, <<"e2", 2>>}

\* SessionData; NoSession stands for null.
Session(id, e, created, last, count) ==
  [cliSessionId |-> id, externalId |-> e, createdAt |-> created,
   lastActivity |-> last, messageCount |-> count]

NoSession == Session(NoId, None, 0, 0, 0)

\* Map.prototype.get / set / delete on a set of entries.
MapHas(m, k) == \E en \in m : en.key = k
MapGet(m, k) == IF MapHas(m, k) THEN (CHOOSE en \in m : en.key = k).val ELSE NoSession
MapDelete(m, k) == {en \in m : en.key # k}
MapSet(m, k, v) == MapDelete(m, k) \cup {[key |-> k, val |-> v]}

\* now - session.lastActivity > this.ttlMs
Expired(s, now) == now - s.lastActivity > ttlMs

\* Mutant: an expired record is reported as absent and left in the Map.
get_KeepsExpired(m, e, now) ==
  LET s == MapGet(m, e) IN
    IF s = NoSession THEN [sessions |-> m, ret |-> NoSession, log |-> None]
    ELSE IF Expired(s, now) THEN [sessions |-> m, ret |-> NoSession, log |-> "Expired"]
    ELSE [sessions |-> m, ret |-> s, log |-> None]

\* get(externalId)
get(m, e, now) ==
  LET s == MapGet(m, e) IN
    IF s = NoSession THEN [sessions |-> m, ret |-> NoSession, log |-> None]
    ELSE IF Expired(s, now)
      THEN [sessions |-> MapDelete(m, e), ret |-> NoSession, log |-> "Expired"]
    ELSE [sessions |-> m, ret |-> s, log |-> None]

\* Mutant: an update starts the record anew.
set_Recreates(m, e, id, now) ==
  LET s == Session(id, e, now, now, 1)
  IN  [sessions |-> MapSet(m, e, s), ret |-> s, log |-> "New"]

\* set(externalId, cliSessionId)
set(m, e, id, now) ==
  LET existing == MapGet(m, e) IN
    IF existing # NoSession
      THEN LET s == [existing EXCEPT !.cliSessionId = id,
                                     !.lastActivity = now,
                                     !.messageCount = @ + 1]
           IN  [sessions |-> MapSet(m, e, s), ret |-> s, log |-> "Updated"]
      ELSE LET s == Session(id, e, now, now, 1)
           IN  [sessions |-> MapSet(m, e, s), ret |-> s, log |-> "New"]

\* touch(externalId)
touch(m, e, now) ==
  LET s == MapGet(m, e) IN
    IF s # NoSession THEN MapSet(m, e, [s EXCEPT !.lastActivity = now]) ELSE m

\* remove(externalId)
remove(m, e) == MapDelete(m, e)

\* Mutant: the sweep removes the records that are not expired.
cleanup_Inverted(m, now) == {en \in m : Expired(en.val, now)}

\* The loop of cleanup(): what is left in the Map.
cleanup(m, now) == {en \in m : ~Expired(en.val, now)}

\* A file that does not exist.
NoFile == {[key |-> None, val |-> NoSession]}

\* save(): JSON.stringify(Object.fromEntries(this.sessions)) written to the
\* file; a failed write is logged and leaves the file.
save(m, file, ok) == IF ok THEN m ELSE file

\* load(): the records of the file that are not expired are put in the Map.
load(m, file, now) ==
  IF file = NoFile THEN m
  ELSE LET fresh == {en \in file : now - en.val.lastActivity <= ttlMs}
           keys == {en.key : en \in fresh}
       IN  {en \in m : en.key \notin keys} \cup fresh

Done(c, op, arg, ret, log) ==
  [c EXCEPT !.op = op, !.arg = arg, !.ret = ret, !.log = log]

\* Date.now() advances.
Advance ==
  /\ cli.now < MaxNow
  /\ cli' = [Done(cli, "time", None, NoSession, None) EXCEPT !.now = @ + 1]
  /\ UNCHANGED serverVars

Get(e) ==
  /\ cli.timers
  /\ LET r == get(cli.sessions, e, cli.now) IN
       cli' = [Done(cli, "get", e, r.ret, r.log) EXCEPT !.sessions = r.sessions]
  /\ UNCHANGED serverVars

Set(e, id) ==
  /\ cli.timers
  /\ MapGet(cli.sessions, e).messageCount < MaxCount
  /\ LET r == set(cli.sessions, e, id, cli.now) IN
       cli' = [Done(cli, "set", e, r.ret, r.log) EXCEPT !.sessions = r.sessions]
  /\ UNCHANGED serverVars

Touch(e) ==
  /\ cli.timers
  /\ cli' = [Done(cli, "touch", e, NoSession, None) EXCEPT
               !.sessions = touch(cli.sessions, e, cli.now)]
  /\ UNCHANGED serverVars

Remove(e) ==
  /\ cli.timers
  /\ cli' = [Done(cli, "remove", e, NoSession, "Removed") EXCEPT
               !.sessions = remove(cli.sessions, e)]
  /\ UNCHANGED serverVars

\* The cleanup interval fires: the sweep, and a save when it removed a record.
Cleanup(ok) ==
  /\ cli.timers
  /\ LET left == cleanup(cli.sessions, cli.now)
         removed == left # cli.sessions
     IN  cli' = [Done(cli, "cleanup", None, NoSession,
                      IF removed THEN "Cleaned" ELSE None) EXCEPT
                   !.sessions = left,
                   !.file = IF removed THEN save(left, cli.file, ok) ELSE @]
  /\ UNCHANGED serverVars

\* The save interval fires.
Save(ok) ==
  /\ cli.timers
  /\ cli' = [Done(cli, "save", None, NoSession, None) EXCEPT
               !.file = save(cli.sessions, cli.file, ok)]
  /\ UNCHANGED serverVars

\* destroy(): both intervals are cleared and the Map is saved.
Destroy(ok) ==
  /\ cli.timers
  /\ cli' = [Done(cli, "destroy", None, NoSession, None) EXCEPT
               !.timers = FALSE,
               !.file = save(cli.sessions, cli.file, ok)]
  /\ UNCHANGED serverVars

\* The process ends and is started again: new SessionStore(24) runs load()
\* on an empty Map and starts the two intervals.
Restart ==
  /\ LET m == load({}, cli.file, cli.now) IN
       cli' = [Done(cli, "restart", None, NoSession,
                    IF m # {} THEN "Loaded" ELSE None) EXCEPT
                 !.sessions = m, !.timers = TRUE]
  /\ UNCHANGED serverVars

InitS ==
  /\ InitServer
  /\ \A e \in ExtIds : sessions[e] = NoId
  /\ cli = [sessions |-> {}, file |-> NoFile, now |-> 0, timers |-> TRUE,
            op |-> "restart", arg |-> None, ret |-> NoSession, log |-> None]

NextS ==
  \/ Advance
  \/ \E e \in ExtIds : Get(e)
  \/ \E c \in SetCalls : Set(c[1], c[2])
  \/ \E e \in ExtIds : Touch(e)
  \/ \E e \in ExtIds : Remove(e)
  \/ \E ok \in BOOLEAN : Cleanup(ok)
  \/ \E ok \in BOOLEAN : Save(ok)
  \/ \E ok \in BOOLEAN : Destroy(ok)
  \/ Restart

SpecS == InitS /\ [][NextS]_vars

\* ------------------------------------------------------------- SpecReplay
\* Two calls of handleStreaming, both with a client that stays connected,
\* are handed the same records. The first call takes the records as its
\* invocation yields them and runs on the handler's variables; cli keeps the
\* records it was handed (log), the variables of the second call (t2) and
\* the number of records the second call has taken (n2). Each call is
\* followed through its first loop.

\* Mutant: the second call starts with the start flag already set.
FreshTranslator_FlagSet ==
  [sent |-> TRUE, open |-> FALSE, text |-> NoText, cap |-> NoId,
   frames |-> <<>>, thrown |-> FALSE]

\* The locals of the second call of handleStreaming before its first loop.
FreshTranslator ==
  [sent |-> FALSE, open |-> FALSE, text |-> NoText, cap |-> NoId,
   frames |-> <<>>, thrown |-> FALSE]

\* The first call takes the next record.
FeedFirst(r) ==
  /\ pc = "s1"
  /\ nYield < MaxRecords
  /\ LET n == Translate1(T, r, RecSid(r)) IN
       /\ SetT(n)
       /\ pc' = IF n.thrown THEN "end" ELSE pc
  /\ nYield' = nYield + 1
  /\ cli' = [cli EXCEPT !.log = Append(@, r)]
  /\ UNCHANGED <<sessions, turn, mode, ext, cliSessionId, response,
                 optSessionId, attempt, closed, ended, invSid, procs, invLog,
                 hLive, obsSid, bareResult, dead>>

\* The second call takes its next record: the one the first call was handed
\* at the same place.
FeedSecond ==
  /\ cli.n2 < Len(cli.log)
  /\ ~cli.t2.thrown
  /\ LET r == cli.log[cli.n2 + 1] IN
       cli' = [cli EXCEPT !.t2 = Translate1(@, r, RecSid(r)), !.n2 = @ + 1]
  /\ UNCHANGED serverVars

InitReplay ==
  /\ sessions = [e \in ExtIds |-> NoId]
  /\ turn = 1
  /\ pc = "s1"
  /\ mode = "stream"
  /\ ext = "e1"
  /\ cliSessionId = NoId
  /\ response = None
  /\ optSessionId = NoId
  /\ attempt = 0
  /\ sentMessageStart = FALSE
  /\ hasOpenBlock = FALSE
  /\ resultText = NoText
  /\ capturedSessionId = NoId
  /\ frames = <<>>
  /\ closed = FALSE
  /\ ended = FALSE
  /\ invSid = FreshId(1, 1)
  /\ nYield = 0
  /\ procs = <<>>
  /\ invLog = <<>>
  /\ hLive = NoId
  /\ obsSid = NoId
  /\ bareResult = None
  /\ dead = {}
  /\ cli = [log |-> <<>>, t2 |-> FreshTranslator, n2 |-> 0]

NextReplay ==
  \/ \E r \in RecordsT : FeedFirst(r)
  \/ FeedSecond

SpecReplay == InitReplay /\ [][NextReplay]_vars

\* --------------------------------------------------------------- SpecAuth
\* The route table of createServer and the API-key middleware, one request
\* at a time: the request goes through the middleware mounted on "/v1" when
\* its path lies under that prefix, then to the handler of its route.
Paths == {"/health", "/v1/sessions", "/messages", "/v1/messages"}
MessagesPaths == {"/messages", "/v1/messages"}
ApiKeys == {NoText, "k"}
XApiKeys == {NoText, "k", "x"}
Authorizations == {NoText, "Bearer k", "Bearer x", "k"}
Bodies == {"empty", "ping", "turn"}

\* extractBearerToken(header): the text after "Bearer ", or undefined.
extractBearerToken(header) ==
  CASE header = "Bearer k" -> "k"
    [] header = "Bearer x" -> "x"
    [] OTHER -> NoText

\* The middleware createAuthMiddleware(apiKey) returns: does it answer 401?
Rejects(apiKey, xApiKey, authorization) ==
  LET key == IF xApiKey # NoText THEN xApiKey ELSE extractBearerToken(authorization)
  IN  apiKey # NoText /\ (key = NoText \/ key # apiKey)

\* app.use("/v1", ...): the paths the mounted middleware sees.
UnderV1(path) == path \in {"/v1/sessions", "/v1/messages"}

\* A request arrives.
Arrive(path, xApiKey, authorization, body) ==
  /\ cli.stage \in {"idle", "done"}
  /\ cli' = [cli EXCEPT !.stage = "use", !.path = path, !.xApiKey = xApiKey,
                        !.authorization = authorization, !.body = body,
                        !.status = 0, !.lookedUp = FALSE, !.checked = FALSE]
  /\ UNCHANGED serverVars

\* The middleware stack: the "/v1" mount answers 401 or calls next().
Middleware ==
  /\ cli.stage = "use"
  /\ cli' = IF UnderV1(cli.path)
            THEN IF Rejects(cli.apiKey, cli.xApiKey, cli.authorization)
                 THEN [cli EXCEPT !.stage = "done", !.status = 401, !.checked = TRUE]
                 ELSE [cli EXCEPT !.stage = "route", !.checked = TRUE]
            ELSE [cli EXCEPT !.stage = "route"]
  /\ UNCHANGED serverVars

\* The route handler. messagesHandler answers 400 to a body with no
\* messages and 200 to a verification ping before it looks the session up;
\* the sessions route has the middleware a second time.
Route ==
  /\ cli.stage = "route"
  /\ cli' = IF cli.path \in MessagesPaths
            THEN CASE cli.body = "empty" -> [cli EXCEPT !.stage = "done", !.status = 400]
                   [] cli.body = "ping" -> [cli EXCEPT !.stage = "done", !.status = 200]
                   [] OTHER -> [cli EXCEPT !.stage = "done", !.status = 200,
                                           !.lookedUp = TRUE]
            ELSE IF cli.path = "/v1/sessions"
                    /\ Rejects(cli.apiKey, cli.xApiKey, cli.authorization)
                 THEN [cli EXCEPT !.stage = "done", !.status = 401]
                 ELSE [cli EXCEPT !.stage = "done", !.status = 200]
  /\ UNCHANGED serverVars

InitAuth ==
  /\ InitServer
  /\ \A e \in ExtIds : sessions[e] = NoId
  /\ \E k \in ApiKeys :
       cli = [apiKey |-> k, stage |-> "idle", path |-> "/health",
              xApiKey |-> NoText, authorization |-> NoText, body |-> "empty",
              status |-> 0, lookedUp |-> FALSE, checked |-> FALSE]

NextAuth ==
  \/ \E p \in Paths, x \in XApiKeys, a \in Authorizations, b \in Bodies :
       Arrive(p, x, a, b)
  \/ Middleware
  \/ Route

SpecAuth == InitAuth /\ [][NextAuth]_vars

\* ------------------------------------------------------------------ SpecO
\* messagesHandler with requests that overlap: every request awaits its
\* handler, and what follows the await (the stored id, the log line, the
\* JSON body, or the catch block) runs without interruption.
MaxOverlap == 2
Turns == 1..MaxOverlap

\* A request that has not arrived.
NoTurn == [pc |-> "idle", ext |-> None, cliSessionId |-> NoId,
           result |-> NoId, outcome |-> None]

\* sessions.get(externalSessionId), then the handler is awaited.
TurnLookup(t, e) ==
  /\ cli.turns[t].pc = "idle"
  /\ cli' = [cli EXCEPT
               !.turns[t] = [NoTurn EXCEPT !.pc = "handler", !.ext = e,
                               !.cliSessionId = StoreGet(cli.store, e, FALSE)]]
  /\ UNCHANGED serverVars

\* The catch block: the record is removed when the request had looked up an id.
CatchRemoves(store, e, looked) ==
  IF looked # NoId THEN StoreRemove(store, e) ELSE store

\* The handler returned id (none when no record carried one): the id is
\* stored, then logMessage appends to the log file; an error of that call
\* is caught by the catch block of the request.
TurnTail(t, id, logThrows) ==
  /\ cli.turns[t].pc = "handler"
  /\ LET T0 == cli.turns[t]
         stored == IF id # NoId THEN StoreSet(cli.store, T0.ext, id) ELSE cli.store
     IN  cli' = [cli EXCEPT
                   !.store = IF logThrows
                             THEN CatchRemoves(stored, T0.ext, T0.cliSessionId)
                             ELSE stored,
                   !.turns[t] = [T0 EXCEPT !.pc = "done", !.result = id,
                                   !.outcome = IF logThrows THEN "logerr" ELSE "ok"]]
  /\ UNCHANGED serverVars

\* The handler threw: the catch block.
TurnCatch(t) ==
  /\ cli.turns[t].pc = "handler"
  /\ LET T0 == cli.turns[t] IN
       cli' = [cli EXCEPT
                 !.store = CatchRemoves(cli.store, T0.ext, T0.cliSessionId),
                 !.turns[t] = [T0 EXCEPT !.pc = "done", !.outcome = "failed"]]
  /\ UNCHANGED serverVars

\* The ids a handler can return for turn t: none, the id it resumed, a new id.
ReturnedIds(t) == {NoId, cli.turns[t].cliSessionId, FreshId(t, 1)}

InitO ==
  /\ InitServer
  /\ \A e \in ExtIds : sessions[e] = NoId
  /\ cli = [store |-> [e \in ExtIds |-> IF e = "e1" THEN InitIdOf[e] ELSE NoId],
            turns |-> [t \in Turns |-> NoTurn]]

NextO ==
  \/ \E t \in Turns, e \in ExtIds : TurnLookup(t, e)
  \/ \E t \in Turns, b \in BOOLEAN : \E id \in ReturnedIds(t) : TurnTail(t, id, b)
  \/ \E t \in Turns : TurnCatch(t)

SpecO == InitO /\ [][NextO]_vars

\* ------------------------------------------------------------------ SpecL
\* The learning record of one agent (agents/<id>/learning.json), the sample
\* files, and the request cache of agent-learning.ts. Every exported function
\* is synchronous and runs to its end.
MaxUses == 3
GoodSamplesCap == 2        \* 50 in the source
RequestIds == {"r1", "r2", "r3"}
Ratings == {"good", "bad"}

\* The record loadLearning returns when learning.json does not exist.
NewLearning == [totalUses |-> 0, goodRatings |-> 0, badRatings |-> 0,
                goodSamples |-> <<>>, archived |-> FALSE]

\* saveGoodSample: the filename of the sample of a request.
SampleFile(r) == "s_" \o r

\* The last n elements of a sequence: slice(-n).
LastN(s, n) == IF Len(s) <= n THEN s ELSE SubSeq(s, Len(s) - n + 1, Len(s))

\* saveGoodSample(record): the sample file is written; learning.json is
\* loaded, the filename appended (the list capped), and saved.
saveGoodSample(c, r) ==
  LET learning == c.file
      pushed == Append(learning.goodSamples, SampleFile(r))
  IN  [c EXCEPT !.samples = @ \cup {SampleFile(r)},
                !.file = [learning EXCEPT
                            !.goodSamples = LastN(pushed, GoodSamplesCap)]]

\* Auto-archive: at least 3 bad ratings and a quality score below 0.3.
ShouldArchive(l) ==
  /\ ~l.archived
  /\ l.badRatings >= 3
  /\ 10 * l.goodRatings < 3 * (l.goodRatings + l.badRatings)

\* recordAgentUse(record): the request is cached, totalUses is counted.
recordAgentUse(r) ==
  /\ cli.file.totalUses < MaxUses
  /\ cli' = [cli EXCEPT !.cache = @ \cup {r},
                        !.file.totalUses = @ + 1,
                        !.op = "use", !.arg = r, !.ok = TRUE]
  /\ UNCHANGED serverVars

\* rateRequest(requestId, rating): learning.json is loaded, the rating
\* counted in the loaded copy, saveGoodSample called for a good rating, and
\* the loaded copy saved.
rateRequest(r, rating) ==
  /\ cli.file.goodRatings + cli.file.badRatings < MaxUses
  /\ IF r \notin cli.cache
       THEN cli' = [cli EXCEPT !.op = "rate", !.arg = r, !.ok = FALSE]
       ELSE LET learning == cli.file
                counted == IF rating = "good"
                           THEN [learning EXCEPT !.goodRatings = @ + 1]
                           ELSE [learning EXCEPT !.badRatings = @ + 1]
                c1 == IF rating = "good" THEN saveGoodSample(cli, r) ELSE cli
                saved == [counted EXCEPT !.archived = @ \/ ShouldArchive(counted)]
            IN  cli' = [c1 EXCEPT !.file = saved,
                                  !.op = rating, !.arg = r, !.ok = TRUE]
  /\ UNCHANGED serverVars

InitL ==
  /\ InitServer
  /\ \A e \in ExtIds : sessions[e] = NoId
  /\ cli = [file |-> NewLearning, samples |-> {}, cache |-> {},
            op |-> None, arg |-> None, ok |-> FALSE]

NextL ==
  \/ \E r \in RequestIds : recordAgentUse(r)
  \/ \E r \in RequestIds, g \in Ratings : rateRequest(r, g)

SpecL == InitL /\ [][NextL]_vars

\* ================================================================= claims
Count(kind) == Cardinality({i \in 1..Len(frames) : frames[i].kind = kind})

\* A block is open before frame i: a content_block_start precedes it with no
\* content_block_stop in between.
OpenBefore(i) ==
  \E j \in 1..(i - 1) :
    /\ frames[j].kind = "content_block_start"
    /\ \A k \in (j + 1)..(i - 1) : frames[k].kind # "content_block_stop"

\* The exit of invocation i was confirmed: its generator got past waitForExit.
ExitConfirmed(i) == invLog[i].outcome \in {"ok", "failed"}

\* C1: the frames of one streaming request hold at most one message_start at
\* any time, and exactly one when the stream has been ended.
C1_ExactlyOneMessageStart ==
  /\ Count("message_start") <= 1
  /\ ended => Count("message_start") = 1

\* C2: no content_block_start is written while a block is open, a
\* content_block_stop is written only when a block is open, and no block is
\* open when the terminal message_delta is written.
C2_BlocksAlternate ==
  \A i \in 1..Len(frames) :
    /\ frames[i].kind = "content_block_start" => ~OpenBefore(i)
    /\ frames[i].kind = "content_block_stop" => OpenBefore(i)
    /\ frames[i].kind = "message_delta" => ~OpenBefore(i)

\* C3: a message_delta is immediately followed by a message_stop, nothing is
\* written after a message_stop, and an ended stream holds exactly one of
\* each, as its last two frames.
C3_OneTerminalPair ==
  /\ \A i \in 1..Len(frames) :
       /\ frames[i].kind = "message_stop" => i = Len(frames)
       /\ frames[i].kind = "message_delta" =>
            i < Len(frames) /\ frames[i + 1].kind = "message_stop"
  /\ ended => /\ Count("message_delta") = 1
              /\ Count("message_stop") = 1
              /\ frames[Len(frames)].kind = "message_stop"

\* One complete envelope: a message_start first, the terminal pair last, one
\* of each, and the blocks in between alternating.
Envelope ==
  /\ Len(frames) >= 3
  /\ frames[1].kind = "message_start"
  /\ frames[Len(frames) - 1].kind = "message_delta"
  /\ frames[Len(frames)].kind = "message_stop"
  /\ Count("message_start") = 1
  /\ Count("message_delta") = 1
  /\ Count("message_stop") = 1
  /\ C2_BlocksAlternate

\* C4: when an invocation of a streaming request failed, the frames of the
\* ended stream are one complete envelope.
C4_ErrorYieldsOneEnvelope ==
  (ended /\ \E i \in 1..Len(invLog) : invLog[i].outcome = "failed") => Envelope

\* C5: a result record handled when no frame had been written is answered by
\* the six synthesized frames, the delta carrying the record's result text.
C5_BareResultSynthesized ==
  bareResult # None =>
    /\ Len(frames) >= 6
    /\ frames[1] = [kind |-> "message_start", text |-> NoText]
    /\ frames[2] = [kind |-> "content_block_start", text |-> NoText]
    /\ frames[3] = [kind |-> "content_block_delta", text |-> bareResult]
    /\ frames[4] = [kind |-> "content_block_stop", text |-> NoText]
    /\ frames[5] = [kind |-> "message_delta", text |-> NoText]
    /\ frames[6] = [kind |-> "message_stop", text |-> NoText]

C5_Witness == bareResult = "a" /\ Len(frames) = 6

\* The first invocation of the request resumed the live stored id and failed.
ResumeFailed ==
  /\ hLive # NoId
  /\ Len(invLog) >= 1
  /\ invLog[1].resume = hLive
  /\ invLog[1].outcome = "failed"

FreshRetryFollows ==
  /\ Len(invLog) >= 2
  /\ \A k \in 2..Len(invLog) : invLog[k].resume = NoId

C8_StaleRecordInvalidated ==
  (pc = "done" /\ ResumeFailed) => sessions[ext] # hLive

\* The late JSON lines: written after readline ended, within the settle wait.
LateJson == {l \in cli.late : l.kind = "json"}
Yielded(id) == \E n \in 1..Len(cli.yielded) : cli.yielded[n] = id

\* C9: when two JSON lines were written after readline reported the end of
\* input and before the settle wait elapsed, both have been yielded by the
\* time the drain loop is over.
C9_LateLinesYielded ==
  (cli.phase \in {"wait", "done", "threw"} /\ Cardinality(LateJson) = 2)
     => \A l \in LateJson : Yielded(l.id)

\* C10: a message_stop frame, the end of the stream, the JSON body and the
\* stored session id all come after the exit of every subprocess of the
\* request was confirmed.
C10_DoneOnlyAfterExitConfirmed ==
  (\/ Count("message_stop") > 0
   \/ ended
   \/ response # None
   \/ pc = "done" /\ capturedSessionId # NoId)
    => \A i \in 1..Len(invLog) : ExitConfirmed(i)

Sent(sig) == \E n \in 1..Len(cli.signals) : cli.signals[n] = sig

\* The subprocess has been silent, with no positive probe, for longer than
\* the idle deadline.
QuietTooLong ==
  /\ cli.proc = "running"
  /\ cli.now > cli.lastLine + CLI_IDLE_TIMEOUT_MS
  /\ cli.now > cli.lastActive + CLI_IDLE_TIMEOUT_MS

\* C11: while every liveness probe finds an active child the idle timer
\* never fires; a running subprocess that has been silent with no active
\* child for longer than the idle deadline has been sent SIGTERM.
C11_IdleDeadline ==
  /\ cli.allActive => ~cli.idleFired
  /\ QuietTooLong => Sent("SIGTERM")

\* C12: the hard timer is never re-armed, and a subprocess still running
\* after the hard deadline has been sent SIGTERM by it.
C12_HardDeadline ==
  /\ cli.hardAt \in {CLI_HARD_TIMEOUT_MS, Off}
  /\ (cli.proc = "running" /\ cli.now > CLI_HARD_TIMEOUT_MS) => cli.hardFired

\* C13: an invocation whose subprocess was signalled by a deadline does not
\* return normally, it raises an error; and a handler does not start another
\* invocation after that error.
C13_TimeoutIsFailure ==
  /\ (cli.timedOut /\ cli.phase \in {"done", "threw"}) => cli.phase = "threw"
  /\ (cli.timedOut /\ cli.phase = "threw") =>
        \A m \in {"buffered", "stream"} : ~RetryFollows(m, 0, FALSE)

\* The JSON lines the readline loop was handed have all been yielded.
ReadLinesYielded ==
  /\ cli.rlQueue = <<>>
  /\ \A n \in 1..Len(cli.rawLines) :
       (cli.rawLines[n].kind = "json" /\ cli.rawLines[n] \notin cli.late)
          => Yielded(cli.rawLines[n].id)

C15_SilentFailureSurfaced ==
  (cli.phase \in {"done", "threw"} /\ cli.exitCode # 0 /\ cli.stderrData = NoText)
     => cli.phase = "threw"

\* The names of the model that the nested-session denylist covers.
DeniedNames ==
  {CLAUDECODE, CLAUDE_DEV, CLAUDE_CODE_, CLAUDE_CODE_ \o <<"X">>,
   CLAUDE_AGENT_ \o <<"X">>}

\* C16: the environment given to spawn holds no deny-listed variable, holds
\* every other variable with the value it had in the ambient environment,
\* and the ambient environment is what it was before the call.
C16_EnvSanitized ==
  cli.phase = "spawned" =>
    /\ \A k \in DeniedNames : cli.spawnEnv[k] = Unset
    /\ \A k \in EnvNames \ DeniedNames : cli.spawnEnv[k] = cli.before[k]
    /\ cli.ambient = cli.before

C16_Witness ==
  /\ cli.phase = "spawned"
  /\ cli.before[CLAUDECODE] = "a"
  /\ cli.before[CLAUDE_DEV] = "b"
  /\ cli.before[CLAUDE \o <<"_">> \o CODE \o <<"X">>] = "a"
  /\ cli.spawnEnv[CLAUDE \o <<"_">> \o CODE \o <<"X">>] = "a"

\* The last record was handled by a loop of handleStreaming and was a
\* top-level stream_event of the given event type.
Streamed(etype) ==
  /\ cli.loop \in {"s1", "s2"}
  /\ cli.rec.type = "stream_event"
  /\ ~cli.rec.parent
  /\ cli.rec.etype = etype

FrameWritten == Len(cli.after.frames) > Len(cli.before.frames)

SameFlagsAndBuffer ==
  /\ cli.after.sent = cli.before.sent
  /\ cli.after.open = cli.before.open
  /\ cli.after.text = cli.before.text

\* C17: a stream_event with a parent_tool_use_id handled by a loop of
\* handleStreaming writes no frame, raises nothing and leaves the start flag,
\* the open-block flag and the result buffer as they were.
C17_ParentRecordDiscarded ==
  (cli.loop \in {"s1", "s2"} /\ cli.rec.type = "stream_event" /\ cli.rec.parent)
    => /\ cli.after.frames = cli.before.frames
       /\ SameFlagsAndBuffer
       /\ ~cli.after.thrown

C17_Witness ==
  /\ cli.loop = "s1"
  /\ cli.rec.type = "stream_event"
  /\ cli.rec.parent
  /\ cli.rec.etype = "ping"
  /\ cli.before.sent
  /\ cli.before.open

\* C18: a content_block_start record writes a frame only when a
\* message_start frame was written before and the block is a text block; a
\* block of any other type writes nothing and leaves the open-block flag.
C18_OnlyTextBlocksStart ==
  Streamed("content_block_start") =>
    /\ FrameWritten =>
         /\ \E n \in 1..Len(cli.before.frames) :
              cli.before.frames[n].kind = "message_start"
         /\ cli.rec.btype = "text"
    /\ cli.rec.btype # "text" =>
         /\ cli.after.frames = cli.before.frames
         /\ cli.after.open = cli.before.open

\* C19: a content_block_delta record writes a frame only when its delta is a
\* text_delta; a delta of another type, or with no type, writes nothing and
\* leaves the result buffer.
C19_OnlyTextDeltasForwarded ==
  Streamed("content_block_delta") =>
    /\ FrameWritten => cli.rec.dtype = "text_delta"
    /\ cli.rec.dtype # "text_delta" =>
         /\ cli.after.frames = cli.before.frames
         /\ cli.after.text = cli.before.text

\* C20: when the turn is over and at least one text delta was forwarded, the
\* text reported for the turn is the concatenation of the forwarded delta
\* texts.
C20_BufferIsFinalText ==
  (pc = "end" /\ response # "500" /\ cli.nfwd >= 1) => FinalText = cli.fwd

\* C21: once a loop of handleStreaming has found the connection closed, no
\* frame is written for the request, and the subprocess is sent no signal
\* other than the SIGKILL a deadline had already scheduled.
C21_DisconnectStopsFrames ==
  cli.seen =>
    /\ frames = cli.framesAtBreak
    /\ \/ cli.signals = cli.signalsAtBreak
       \/ /\ cli.pendingAtBreak
          /\ cli.signals = Append(cli.signalsAtBreak, "SIGKILL")

C21_Witness ==
  /\ cli.seen
  /\ pc = "done"
  /\ cli.proc = "running"
  /\ cli.now > CLI_HARD_TIMEOUT_MS
  /\ Len(frames) >= 2
  /\ frames[Len(frames)].kind = "content_block_delta"

OneRecordPerId(m) ==
  /\ \A a, b \in m : a.key = b.key => a = b
  /\ \A a \in m : a.val.externalId = a.key

\* C23: get returns the record of the id when its idle time is at most the
\* time-to-live, and then changes nothing; when the idle time exceeds it,
\* get returns null and the record is gone from the Map at once, the other
\* records staying; for an id with no record it returns null and changes
\* nothing.
C23_LazyExpiryOnGet ==
  [][cli'.op = "get" =>
       LET s == MapGet(cli.sessions, cli'.arg) IN
         /\ cli'.now = cli.now /\ cli'.file = cli.file
         /\ IF s # NoSession /\ cli.now - s.lastActivity <= ttlMs
              THEN cli'.ret = s /\ cli'.sessions = cli.sessions
              ELSE /\ cli'.ret = NoSession
                   /\ ~MapHas(cli'.sessions, cli'.arg)
                   /\ \A en \in cli.sessions :
                        en.key # cli'.arg => en \in cli'.sessions
                   /\ cli'.sessions \subseteq cli.sessions]_vars

C23_Witness ==
  /\ cli.op = "get"
  /\ cli.arg = "e1"
  /\ cli.log = "Expired"
  /\ cli.ret = NoSession
  /\ ~MapHas(cli.sessions, "e1")
  /\ MapHas(cli.sessions, "e2")
  /\ cli.timers

C25_SweepAndLoadDropExpired ==
  [][/\ cli'.op = "cleanup" =>
          cli'.sessions = {en \in cli.sessions : cli.now - en.val.lastActivity <= ttlMs}
     /\ cli'.op = "restart" =>
          /\ \A en \in cli'.sessions : ~(cli'.now - en.val.lastActivity > ttlMs)
          /\ \A en \in cli.file :
               (cli.file # NoFile /\ cli.now - en.val.lastActivity <= ttlMs)
                  => en \in cli'.sessions]_vars

C25_Witness ==
  /\ cli.op = "cleanup"
  /\ cli.log = "Cleaned"
  /\ cli.sessions # {}
  /\ cli.file = cli.sessions

\* C26: after a restart every record that was in the Map before it and is
\* not expired is in the Map, with the same cliSessionId, createdAt,
\* lastActivity and messageCount.
C26_RestartKeepsRecords ==
  [][cli'.op = "restart" =>
       \A en \in cli.sessions :
          cli.now - en.val.lastActivity <= ttlMs => en \in cli'.sessions]_vars

AllFailed ==
  /\ Len(invLog) >= 1
  /\ \A i \in 1..Len(invLog) : invLog[i].outcome = "failed"

\* The error outcomes the caller got: the 500 response, or the frames that
\* carry the error text.
ErrorOutcomes ==
  (IF response = "500" THEN 1 ELSE 0)
    + Cardinality({i \in 1..Len(frames) : frames[i] = Frame("content_block_delta", ErrText)})

\* C27: a finished request whose invocations all raised an error made at
\* most two invocations and gave the caller exactly one error outcome; and
\* an invocation after the first is started only when the retry delay is over.
C27_RetriedOnceThenSurfaced ==
  /\ [](pc = "done" /\ AllFailed => Len(invLog) <= 2 /\ ErrorOutcomes = 1)
  /\ [][(Len(invLog) >= 1 /\ Len(invLog') > Len(invLog))
          => pc \in {"s1wait", "bwait"}]_vars

\* C28: a buffered request whose invocations all raised an error is answered
\* with the 500 response, one in which an invocation returned is answered
\* with the success body, and an invocation whose subprocess exited with a
\* non-zero code is not followed by the success body.
C28_BufferedErrorIs500 ==
  /\ [](pc = "done" /\ mode = "buffered" =>
          /\ AllFailed => response = "500"
          /\ invLog[Len(invLog)].outcome = "ok" => response = "ok")
  /\ [][(\E s \in StderrTexts : EndB(1, s)) => pc' # "ret"]_vars

\* C29: a record of unexpected shape (a stream_event with no nested event
\* or with an unknown event type, a record of an unknown type) is skipped by
\* the loop that reads it: nothing is raised, so the turn neither fails nor
\* is retried because of it, and no frame, flag or buffer changes.
C29_AnomalyNeverFatal ==
  (\/ cli.rec.type = "system"
   \/ cli.rec.type = "stream_event" /\ cli.rec.etype \in {"absent", "other"})
    => /\ ~cli.after.thrown
       /\ cli.after.frames = cli.before.frames
       /\ SameFlagsAndBuffer

NoValidKey ==
  /\ cli.xApiKey # cli.apiKey
  /\ extractBearerToken(cli.authorization) # cli.apiKey

\* C31: with an API key configured, a request to a messages route that
\* presents the key in neither header is answered 401 and reaches no session
\* lookup; with no key configured no request is answered 401.
C31_MessagesNeedKey ==
  /\ (cli.stage = "done" /\ cli.path \in MessagesPaths
        /\ cli.apiKey # NoText /\ NoValidKey)
        => cli.status = 401 /\ ~cli.lookedUp
  /\ cli.apiKey = NoText => cli.status # 401


IsJson(l) == l.kind = "json"

\* The ids of the JSON lines among the lines the subprocess wrote, in the
\* order they were written.
JsonWritten ==
  LET js == SelectSeq(cli.rawLines, IsJson)
  IN  [n \in 1..Len(js) |-> js[n].id]

\* C32: when the read loop and the drain are over, the records yielded are
\* the JSON lines written to stdout, each once and in the order written.
C32_YieldedIsJsonWritten ==
  cli.phase \in {"wait", "done", "threw"} => cli.yielded = JsonWritten


\* The last signal sent to the subprocess.
LastSignal == IF cli.signals = <<>> THEN None ELSE cli.signals[Len(cli.signals)]

Finished == cli.phase \in {"done", "threw", "returned"}

\* C34: once the subprocess has terminated, the invocation eventually
\* finishes.
C34_FinishesAfterExit == (cli.proc = "exited") ~> Finished


\* C35: while the subprocess runs and the hard timer has not fired, the hard
\* timer is armed; and past the hard deadline the subprocess has exited or
\* has been sent SIGTERM.
C35_DeadlinesUntilExit ==
  /\ (cli.proc = "running" /\ ~cli.hardFired) => cli.hardAt = CLI_HARD_TIMEOUT_MS
  /\ cli.now > CLI_HARD_TIMEOUT_MS => (cli.proc = "exited" \/ Sent("SIGTERM"))


\* Two finished turns for the same external id that both looked up the same
\* stored id: turn s returned a new id, turn f failed.
OverlapOkAndFailed(s, f) ==
  LET S == cli.turns[s]
      F == cli.turns[f]
  IN  /\ S.pc = "done" /\ F.pc = "done"
      /\ S.ext = F.ext
      /\ S.cliSessionId # NoId /\ F.cliSessionId = S.cliSessionId
      /\ S.outcome = "ok" /\ S.result \notin {NoId, S.cliSessionId}
      /\ F.outcome = "failed"

\* C36: after two overlapping turns for E that both looked up E -> I, one
\* storing E -> J and the other failing, the store maps E to J.
C36_FailedTurnKeepsNewId ==
  \A s \in Turns, f \in Turns :
    OverlapOkAndFailed(s, f) => cli.store[cli.turns[s].ext] = cli.turns[s].result

\* C37: a step of the orchestrator that removes a record is the catch block
\* of a turn whose handler failed after an id was looked up; a turn that
\* stored a new id and then failed while logging leaves that id stored.
C37_RemoveOnlyOnFailedResume ==
  [][/\ \A e \in ExtIds :
          (cli.store[e] # NoId /\ cli'.store[e] = NoId)
             => \E t \in Turns : /\ cli.turns[t].pc = "handler"
                                 /\ cli.turns[t].ext = e
                                 /\ cli.turns[t].cliSessionId # NoId
                                 /\ cli'.turns[t].outcome = "failed"
     /\ \A t \in Turns :
          (cli.turns[t].pc = "handler" /\ cli'.turns[t].outcome = "logerr"
             /\ cli'.turns[t].result # NoId)
             => cli'.store[cli.turns[t].ext] = cli'.turns[t].result]_vars


\* C38: once the message_stop frame of a streaming turn has been written,
\* the store maps the external id to the session id the turn captured: a
\* lookup made from then on returns it.
C38_StoredBeforeMessageStop ==
  (mode = "stream" /\ Count("message_stop") > 0 /\ capturedSessionId # NoId)
     => StoreGet(sessions, ext, FALSE) = capturedSessionId

\* The subprocesses of the request that have not exited.
Alive == {i \in 1..Len(procs) : procs[i] = "alive"}

\* C39: at most one subprocess of a request is alive at any time.
C39_OneSubprocessAlive == Cardinality(Alive) <= 1


\* C40: after rateRequest recorded a good rating for a cached request, the
\* learning record lists the filename of the saved sample in goodSamples,
\* holds at most GoodSamplesCap filenames, and its good-rating count is one
\* more than before.
C40_GoodRatingKeepsSample ==
  [][(cli'.op = "good" /\ cli'.ok)
       => /\ cli'.file.goodRatings = cli.file.goodRatings + 1
          /\ SampleFile(cli'.arg) \in cli'.samples
          /\ Len(cli'.file.goodSamples) <= GoodSamplesCap
          /\ \E n \in 1..Len(cli'.file.goodSamples) :
               cli'.file.goodSamples[n] = SampleFile(cli'.arg)]_vars

====
